---- MODULE Spec2Model ----
(***************************************************************************)
(* Model of the serial session services of siot-web-flasher:               *)
(*   FlashService          (src/src/services/flashService.ts)              *)
(*   FlashReadService      (src/src/services/flashReadService.ts)          *)
(*   ConsoleTestService    (src/src/services/consoleTestService.ts)        *)
(*   SimpleTerminal        (src/src/components/SimpleTerminal.tsx)         *)
(*                                                                         *)
(* The services are singletons whose async methods run on one event loop.  *)
(* Every invocation is a task with a call stack of frames; a frame is      *)
(* suspended at an await (its pc names the awaited promise).  One action   *)
(* of the model is one synchronous segment of code: from the settlement of *)
(* the awaited promise to the next await (or to the return), the           *)
(* synchronous prefix of every method called on the way included.          *)
(*                                                                         *)
(* The host platform (Web Serial) and the loader library (esptool-js) are  *)
(* the environment: a promise of theirs settles either way, and a port     *)
(* can be opened only while closed and closed only while open.             *)
(*                                                                         *)
(* FlashService.reader is declared (flashService.ts:45) and never          *)
(* assigned, so the reader branch of disconnect (328-332) cannot run and   *)
(* has no action here.                                                     *)
(***************************************************************************)
EXTENDS Integers, Sequences, FiniteSets, TLC

\* ---------------------------------------------------------------- bounds
MaxPorts == 2
MaxTasks == 2
MaxLoops == 2
MaxCalls == 3
MaxImage == 1
MaxTotal == 200
MaxLen == 5
MaxParam == 3
MaxWrites == 2
MaxBytes == 4
MaxChunk == 2

NULL == 0
Variants == {"flashRead", "consoleTest"}
Components == {"WebFlasher", "SerialRead"}
Ports == 1..MaxPorts
Tasks == 1..MaxTasks

\* the chunks rawRead() can yield: no byte, white space only, or some text
ChunkKinds == {"empty", "blank", "text"}

NoRead == [chunk |-> "none", sunk |-> 0]

\* the lengths a downloaded firmware image can have
ImageSizes == 0..MaxImage

VARIABLES
  port,        \* FlashService.port           (a physical port or NULL)
  transport,   \* FlashService.transport      (the port it wraps or NULL)
  espLoader,   \* FlashService.espLoader      (the port its transport wraps or NULL)
  writer,      \* FlashService.writer         (the port whose writable it locks or NULL)
  open,        \* physical ports that are open (host platform state)
  loops,       \* read loops spawned by startSerialMonitoring, per transport
  tasks,       \* call stack of every task
  outcome,     \* what the last finished top-level call returned
  calls,       \* number of top-level calls made so far
  device,            \* FlashReadService.device     (a physical port or NULL)
  consoleTransport,  \* FlashReadService.transport  (the port it wraps or NULL)
  isConsoleClosed,   \* FlashReadService.isConsoleClosed
  terminal,          \* FlashReadService.terminal is set
  variant,           \* which console service runs: "flashRead" or "consoleTest"
  total,       \* bytes the loader has to write in the writeFlash under way
  written,     \* bytes the loader has reported as written
  progress,    \* the percentage last passed to onProgress
  hundreds,    \* how many times onProgress was passed 100 in this writeFlash
  content,        \* SimpleTerminal: the content state, a string
  parsedContent,  \* SimpleTerminal: the parsedContent state, the runs shown
  input,          \* all the text written since the terminal was last empty
  lastCut,        \* the length of content before the last write
  cleared,        \* what the content held when clear() last ran
  lastRead,    \* the chunk a read loop was last handed, and how many times
               \* the loop passed it to its sink
  tabValue,                 \* WebFlasherPage: the tab shown, 0 flasher, 1 monitor
  hasStabilizedConnection,  \* WebFlasherPage: its isConnected state
  isConnected,              \* the isConnected state of each component
  isReading,                \* SerialRead: its isReading state
  received,    \* the bytes the terminal adapter was handed, chunk after chunk
  appended     \* the text the adapter has passed to the terminal's write()

\* the progress reports of a writeFlash under way
prVars == <<total, written, progress, hundreds>>

\* the terminal component and what was done to it
trVars == <<content, parsedContent, input, lastCut, cleared>>

\* the state of the page and of the two components it shows
uiVars == <<tabValue, hasStabilizedConnection, isConnected, isReading>>

\* the decoding of the chunks read
rdVars == <<received, appended>>

vars == <<port, transport, espLoader, writer, open, loops, tasks, outcome, calls,
          device, consoleTransport, isConsoleClosed, terminal, variant, prVars,
          trVars, lastRead, uiVars, rdVars>>

rsFields == <<device, consoleTransport, isConsoleClosed, terminal>>

\* what a step of a FlashService method leaves alone
rsVars == <<rsFields, variant, prVars, trVars, lastRead, uiVars, rdVars>>

\* what an action of the console services leaves alone
fsVars == <<port, transport, espLoader, writer, loops, prVars, trVars, lastRead, uiVars, rdVars>>

fsFields == <<port, transport, espLoader, writer>>

\* ---------------------------------------------------------------- frames
Frame(op, pc, loc) == [op |-> op, pc |-> pc, loc |-> loc, r |-> "none"]

NoOutcome == [op |-> "none", r |-> "none"]

Top(t) == tasks[t][Len(tasks[t])]

Idle(t) == tasks[t] = <<>>

\* a user event may start a call on task t: tasks are interchangeable slots
\* and a new call takes the first free one
CanStart(t) ==
  /\ Idle(t)
  /\ calls < MaxCalls
  /\ \A u \in Tasks : u < t => ~Idle(u)

\* task t is suspended in method op at the await named pc
At(t, op, pc) ==
  /\ ~Idle(t)
  /\ Top(t).op = op
  /\ Top(t).pc = pc

\* task t awaits a call it made at pc; the call has settled with result r
Back(t, op, pc) ==
  /\ At(t, op, pc)
  /\ Top(t).r # "none"

Rest(t) == SubSeq(tasks[t], 1, Len(tasks[t]) - 1)

\* the top frame of t moves to another await of the same method
Goto(t, pc, loc) ==
  /\ tasks' = [tasks EXCEPT ![t] = Append(Rest(t), Frame(Top(t).op, pc, loc))]
  /\ UNCHANGED <<outcome, calls>>

\* the top frame of t calls a method that suspends at callee
Call(t, pc, callee) ==
  /\ tasks' = [tasks EXCEPT ![t] =
                 Append(Append(Rest(t), Frame(Top(t).op, pc, NULL)), callee)]
  /\ UNCHANGED <<outcome, calls>>

\* the top frame of t calls a method that settles without suspending
CallDone(t, pc, res) ==
  /\ tasks' = [tasks EXCEPT ![t] =
                 Append(Rest(t), [Frame(Top(t).op, pc, NULL) EXCEPT !.r = res])]
  /\ UNCHANGED <<outcome, calls>>

\* the top frame of t returns (or throws) res to its caller
Complete(t, res) ==
  /\ UNCHANGED calls
  /\ IF Len(tasks[t]) = 1
       THEN /\ tasks' = [tasks EXCEPT ![t] = <<>>]
            /\ outcome' = [op |-> Top(t).op, r |-> res]
       ELSE /\ tasks' = [tasks EXCEPT ![t] =
                           Append(SubSeq(tasks[t], 1, Len(tasks[t]) - 2),
                                  [tasks[t][Len(tasks[t]) - 1] EXCEPT !.r = res])]
            /\ UNCHANGED outcome

\* a user event starts a top-level call on an idle task
Start(t, frame) ==
  /\ CanStart(t)
  /\ tasks' = [tasks EXCEPT ![t] = <<frame>>]
  /\ calls' = calls + 1
  /\ UNCHANGED outcome

\* no writeFlash is under way
NoProgress ==
  /\ total = 0
  /\ written = 0
  /\ progress = 0
  /\ hundreds = 0

\* the terminal as mounted: useState("") and useState([]), SimpleTerminal.tsx 235-236
EmptyTerminal ==
  /\ content = <<>>
  /\ parsedContent = <<>>
  /\ input = <<>>
  /\ lastCut = 0
  /\ cleared = "never"

\* the page shows tab and component c believes it is connected ("none": no
\* component does)
\* no chunk has reached the terminal adapter
NothingReceived ==
  /\ received = <<>>
  /\ appended = <<>>

PageAt(tab, c) ==
  /\ tabValue = tab
  /\ hasStabilizedConnection = (c # "none")
  /\ isConnected = [x \in Components |-> x = c]
  /\ isReading = FALSE

\* the state after the services are constructed
Fresh ==
  /\ PageAt(0, "none")
  /\ NothingReceived
  /\ NoProgress
  /\ EmptyTerminal
  /\ lastRead = NoRead
  /\ port = NULL
  /\ transport = NULL
  /\ espLoader = NULL
  /\ writer = NULL
  /\ open = {}
  /\ loops = [p \in Ports |-> 0]
  /\ tasks = [t \in Tasks |-> <<>>]
  /\ outcome = NoOutcome
  /\ calls = 0
  /\ device = NULL
  /\ consoleTransport = NULL
  /\ isConsoleClosed = FALSE
  /\ terminal = FALSE

Init ==
  /\ Fresh
  /\ variant = "flashRead"

InitConsole ==
  /\ Fresh
  /\ variant \in Variants

\* ------------------------------------------------------------ results
\* what a call hands to its caller: a value, or the error it throws
Errors == {"E_noPort", "E_connect", "E_download", "E_empty", "E_notConnected",
           "E_write", "E_after", "E_signal", "E_typeError", "E_reconnect",
           "E_notAvailable", "E_disconnect", "E_read", "E_erase"}

Thrown(r) == r \in Errors

\* ============================================================ FlashService

\* ---- disconnect(): flashService.ts 326-360
\* the synchronous prefix of disconnect(): the first release step it awaits
DisconnectEntry ==
  IF writer # NULL THEN Frame("disconnect", "writerClose", writer)
  ELSE IF transport # NULL THEN Frame("disconnect", "transportDisconnect", transport)
  ELSE Frame("disconnect", "portClose", port)

NothingHeld == writer = NULL /\ transport = NULL /\ port = NULL

\* `await this.disconnect()` in a caller that then waits at pc
CallDisconnect(t, pc) ==
  IF NothingHeld
    THEN /\ espLoader' = NULL
         /\ UNCHANGED <<port, transport, writer>>
         /\ CallDone(t, pc, "true")
    ELSE /\ UNCHANGED fsFields
         /\ Call(t, pc, DisconnectEntry)

\* a user event calls disconnect()
Disconnect(t) ==
  /\ UNCHANGED rsVars
  /\ CanStart(t)
  /\ UNCHANGED <<open, loops>>
  /\ IF NothingHeld
       THEN /\ espLoader' = NULL
            /\ calls' = calls + 1
            /\ UNCHANGED <<port, transport, writer, tasks>>
            /\ outcome' = [op |-> "disconnect", r |-> "true"]
       ELSE /\ UNCHANGED fsFields
            /\ Start(t, DisconnectEntry)

\* lines 345-355, once the transport is dealt with
DisconnectPortStage(t) ==
  IF port # NULL
    THEN /\ Goto(t, "portClose", port)
         /\ UNCHANGED <<port, espLoader>>
    ELSE /\ espLoader' = NULL
         /\ UNCHANGED port
         /\ Complete(t, "true")

\* lines 334-338: writer.close() settles
DisconnectWriterClose(t) ==
  /\ UNCHANGED rsVars
  /\ At(t, "disconnect", "writerClose")
  /\ UNCHANGED <<open, loops>>
  /\ \/ /\ writer # NULL
        /\ writer' = NULL
        /\ IF transport # NULL
             THEN /\ Goto(t, "transportDisconnect", transport)
                  /\ UNCHANGED <<port, transport, espLoader>>
             ELSE /\ UNCHANGED transport
                  /\ DisconnectPortStage(t)
     \/ \* close() rejects, or releaseLock() on a writer already nulled: caught at 356
        /\ UNCHANGED fsFields
        /\ Complete(t, "false")

\* lines 340-343: transport.disconnect() settles
DisconnectTransport(t) ==
  /\ UNCHANGED rsVars
  /\ At(t, "disconnect", "transportDisconnect")
  /\ UNCHANGED <<writer, loops>>
  /\ \/ /\ Top(t).loc \in open
        /\ open' = open \ {Top(t).loc}
        /\ transport' = NULL
        /\ DisconnectPortStage(t)
     \/ \* rejects (the port is not open, or its close fails): caught at 356
        /\ UNCHANGED <<port, transport, espLoader, open>>
        /\ Complete(t, "false")

\* lines 345-355: port.close() settles; its failure is caught at 348
DisconnectPortClose(t) ==
  /\ UNCHANGED rsVars
  /\ At(t, "disconnect", "portClose")
  /\ UNCHANGED <<writer, transport, loops>>
  /\ open' \in {open \ {Top(t).loc}, open}
  /\ port' = NULL
  /\ espLoader' = NULL
  /\ Complete(t, "true")

\* ---- connect(): flashService.ts 88-139
Connect(t) ==
  /\ UNCHANGED rsVars
  /\ Start(t, Frame("connect", "requestPort", NULL))
  /\ UNCHANGED <<fsFields, open, loops>>

\* lines 95-123: requestPort() settles
ConnectRequestPort(t) ==
  /\ UNCHANGED rsVars
  /\ At(t, "connect", "requestPort")
  /\ UNCHANGED <<open, loops>>
  /\ \/ \E p \in Ports :
          /\ port' = p
          /\ transport' = p
          /\ espLoader' = p
          /\ UNCHANGED writer
          /\ Goto(t, "main", p)
     \/ \* the prompt is dismissed: catch at 130, cleanup at 136
        CallDisconnect(t, "cleanup")

\* lines 123-137: espLoader.main() settles
ConnectMain(t) ==
  /\ UNCHANGED rsVars
  /\ At(t, "connect", "main")
  /\ UNCHANGED loops
  /\ \/ /\ Top(t).loc \notin open
        /\ open' = open \cup {Top(t).loc}
        /\ UNCHANGED fsFields
        /\ Complete(t, "success")
     \/ \* the handshake fails on the opened port
        /\ Top(t).loc \notin open
        /\ open' = open \cup {Top(t).loc}
        /\ CallDisconnect(t, "cleanup")
     \/ \* the port cannot be opened
        /\ UNCHANGED open
        /\ CallDisconnect(t, "cleanup")

\* line 137, after the cleanup
ConnectCleanedUp(t) ==
  /\ UNCHANGED rsVars
  /\ Back(t, "connect", "cleanup")
  /\ UNCHANGED <<fsFields, open, loops>>
  /\ Complete(t, "failure")

\* ---- flashFirmware(): flashService.ts 141-221
FlashFirmware(t) ==
  /\ UNCHANGED rsVars
  /\ Start(t, Frame("flashFirmware", "fetch", NULL))
  /\ UNCHANGED <<fsFields, open, loops>>

\* lines 152-157: fetch() settles; a response that is ok carries a body of
\* some number of bytes
FlashFetch(t) ==
  /\ UNCHANGED rsVars
  /\ At(t, "flashFirmware", "fetch")
  /\ UNCHANGED <<fsFields, open, loops>>
  /\ \/ \E n \in ImageSizes : Goto(t, "arrayBuffer", n)
     \/ Complete(t, "E_download")

\* lines 158-199 without the test of lines 160-162
FlashPrepare_Unchecked(t, n) ==
  IF espLoader = NULL
    THEN Complete(t, "E_notConnected")
    ELSE Goto(t, "writeFlash", espLoader)

\* lines 158-199: the image of n bytes is checked and handed to the loader
FlashPrepare(t, n) ==
  IF n = 0
    THEN Complete(t, "E_empty")
    ELSE IF espLoader = NULL
      THEN Complete(t, "E_notConnected")
      ELSE Goto(t, "writeFlash", espLoader)

\* lines 157-199: arrayBuffer() settles
FlashArrayBuffer(t) ==
  /\ UNCHANGED rsVars
  /\ At(t, "flashFirmware", "arrayBuffer")
  /\ UNCHANGED <<fsFields, open, loops>>
  /\ \/ Complete(t, "E_download")
     \/ FlashPrepare(t, Top(t).loc)

\* FlashWrite with a catch block that releases the session, as connect's does
FlashWrite_Releasing(t) ==
  /\ At(t, "flashFirmware", "writeFlash")
  /\ UNCHANGED <<rsVars, open, loops, writer>>
  /\ \/ /\ Top(t).loc \in open
        /\ UNCHANGED <<port, transport, espLoader>>
        /\ IF espLoader = NULL
             THEN Complete(t, "E_typeError")
             ELSE Goto(t, "after", espLoader)
     \/ /\ port' = NULL
        /\ transport' = NULL
        /\ espLoader' = NULL
        /\ Complete(t, "E_write")

\* lines 199-204: writeFlash() settles
FlashWrite(t) ==
  /\ UNCHANGED rsVars
  /\ At(t, "flashFirmware", "writeFlash")
  /\ UNCHANGED <<fsFields, open, loops>>
  /\ \/ /\ Top(t).loc \in open
        /\ IF espLoader = NULL
             THEN Complete(t, "E_typeError")
             ELSE Goto(t, "after", espLoader)
     \/ Complete(t, "E_write")

\* lines 204-209: after() settles
FlashAfter(t) ==
  /\ UNCHANGED rsVars
  /\ At(t, "flashFirmware", "after")
  /\ UNCHANGED <<fsFields, open, loops>>
  /\ \/ /\ Top(t).loc \in open
        /\ IF transport = NULL
             THEN Complete(t, "ok")
             ELSE Goto(t, "setDTR", transport)
     \/ Complete(t, "E_after")

\* the next control-line call of the reset pulse, made on this.transport
FlashPulse(t, pc) ==
  \/ /\ Top(t).loc \in open
     /\ IF transport = NULL
          THEN Complete(t, "E_typeError")
          ELSE Goto(t, pc, transport)
  \/ Complete(t, "E_signal")

\* line 209: setDTR(false) settles
FlashSetDTR(t) ==
  /\ UNCHANGED rsVars
  /\ At(t, "flashFirmware", "setDTR")
  /\ UNCHANGED <<fsFields, open, loops>>
  /\ FlashPulse(t, "setRTS")

\* line 210: setRTS(true) settles
FlashSetRTS(t) ==
  /\ UNCHANGED rsVars
  /\ At(t, "flashFirmware", "setRTS")
  /\ UNCHANGED <<fsFields, open, loops>>
  /\ \/ /\ Top(t).loc \in open
        /\ Goto(t, "hold", NULL)
     \/ Complete(t, "E_signal")

\* lines 211-212: the 100 ms hold elapses
FlashHold(t) ==
  /\ UNCHANGED rsVars
  /\ At(t, "flashFirmware", "hold")
  /\ UNCHANGED <<fsFields, open, loops>>
  /\ IF transport = NULL
       THEN Complete(t, "E_typeError")
       ELSE Goto(t, "clearRTS", transport)

\* lines 212-214: setRTS(false) settles
FlashClearRTS(t) ==
  /\ UNCHANGED rsVars
  /\ At(t, "flashFirmware", "clearRTS")
  /\ UNCHANGED <<fsFields, open, loops>>
  /\ \/ /\ Top(t).loc \in open
        /\ Complete(t, "ok")
     \/ Complete(t, "E_signal")

\* ---- eraseFlash(): flashService.ts 72-86
\* lines 73-75 throw when there is no loader; line 81 calls the loader
EraseFlash(t) ==
  /\ UNCHANGED rsVars
  /\ UNCHANGED <<fsFields, open, loops>>
  /\ IF espLoader # NULL
       THEN Start(t, Frame("eraseFlash", "erase", espLoader))
       ELSE /\ CanStart(t)
            /\ calls' = calls + 1
            /\ outcome' = [op |-> "eraseFlash", r |-> "E_notConnected"]
            /\ UNCHANGED tasks

\* line 81: the loader's eraseFlash() settles
EraseFlashDone(t) ==
  /\ UNCHANGED rsVars
  /\ At(t, "eraseFlash", "erase")
  /\ UNCHANGED <<fsFields, open, loops>>
  /\ \/ /\ Top(t).loc \in open
        /\ Complete(t, "ok")
     \/ Complete(t, "E_erase")

\* ---- startSerialMonitoring(): flashService.ts 264-294
\* the read loop it spawns is bound to the transport of that moment
StartSerialMonitoring ==
  IF transport = NULL
    THEN UNCHANGED loops
    ELSE loops' = [loops EXCEPT ![transport] = @ + 1]

\* lines 275-281: rawRead() yields a chunk to a loop on the open port p; the
\* loop passes it to onData when it has bytes and its text is not all white
\* space
LoopRead(p) ==
  /\ loops[p] > 0
  /\ p \in open
  /\ \E k \in ChunkKinds :
       lastRead' = [chunk |-> k, sunk |-> IF k = "text" THEN 1 ELSE 0]
  /\ UNCHANGED <<fsFields, loops, open, tasks, outcome, calls, rsFields, variant, uiVars, rdVars,
                 prVars, trVars>>

\* lines 275-287: rawRead() of a closed port ends the loop
LoopExit(p) ==
  /\ UNCHANGED rsVars
  /\ loops[p] > 0
  /\ p \notin open
  /\ loops' = [loops EXCEPT ![p] = @ - 1]
  /\ UNCHANGED <<fsFields, open, tasks, outcome, calls>>

\* ---- flashAndTest(): flashService.ts 223-262
FlashAndTest(t) ==
  /\ UNCHANGED rsVars
  /\ CanStart(t)
  /\ tasks' = [tasks EXCEPT ![t] = <<Frame("flashAndTest", "flash", NULL),
                                      Frame("flashFirmware", "fetch", NULL)>>]
  /\ calls' = calls + 1
  /\ UNCHANGED outcome
  /\ UNCHANGED <<fsFields, open, loops>>

\* lines 235-239
FlashAndTestFlashed(t) ==
  /\ UNCHANGED rsVars
  /\ Back(t, "flashAndTest", "flash")
  /\ UNCHANGED <<open, loops>>
  /\ IF Thrown(Top(t).r)
       THEN /\ UNCHANGED fsFields
            /\ Complete(t, Top(t).r)
       ELSE CallDisconnect(t, "disconnect")

\* lines 239-243
FlashAndTestDisconnected(t) ==
  /\ UNCHANGED rsVars
  /\ Back(t, "flashAndTest", "disconnect")
  /\ UNCHANGED <<fsFields, open, loops>>
  /\ Goto(t, "wait", NULL)

\* lines 243-247: the 4 s wait elapses
FlashAndTestWait(t) ==
  /\ UNCHANGED rsVars
  /\ At(t, "flashAndTest", "wait")
  /\ UNCHANGED <<fsFields, open, loops>>
  /\ Call(t, "connect", Frame("connect", "requestPort", NULL))

\* lines 247-256
FlashAndTestConnected(t) ==
  /\ UNCHANGED rsVars
  /\ Back(t, "flashAndTest", "connect")
  /\ UNCHANGED <<fsFields, open>>
  /\ IF Top(t).r = "success"
       THEN /\ transport # NULL => loops[transport] < MaxLoops
            /\ StartSerialMonitoring
            /\ Complete(t, "ok")
       ELSE /\ UNCHANGED loops
            /\ Complete(t, "E_reconnect")

\* ---- stopSerialReading(): flashService.ts 321-324
StopSerialReading(t) ==
  /\ UNCHANGED rsVars
  /\ CanStart(t)
  /\ calls' = calls + 1
  /\ UNCHANGED <<open, loops, outcome>>
  /\ IF NothingHeld
       THEN /\ espLoader' = NULL
            /\ UNCHANGED <<port, transport, writer>>
            /\ tasks' = [tasks EXCEPT ![t] =
                 <<[Frame("stopSerialReading", "disconnect", NULL) EXCEPT !.r = "true"]>>]
       ELSE /\ UNCHANGED fsFields
            /\ tasks' = [tasks EXCEPT ![t] =
                 <<Frame("stopSerialReading", "disconnect", NULL), DisconnectEntry>>]

StopSerialReadingDone(t) ==
  /\ UNCHANGED rsVars
  /\ Back(t, "stopSerialReading", "disconnect")
  /\ UNCHANGED <<fsFields, open, loops>>
  /\ Complete(t, "ok")

\* ---- sendSerialData(): flashService.ts 59-70
\* port.writable exists only while the port is open
SendSerialData(t) ==
  /\ UNCHANGED rsVars
  /\ CanStart(t)
  /\ UNCHANGED <<port, transport, espLoader, open, loops>>
  /\ IF port = NULL \/ port \notin open
       THEN /\ UNCHANGED <<writer, tasks>>
            /\ calls' = calls + 1
            /\ outcome' = [op |-> "sendSerialData", r |-> "E_notAvailable"]
       ELSE /\ writer' = IF writer = NULL THEN port ELSE writer
            /\ Start(t, Frame("sendSerialData", "write", writer'))

\* line 69: writer.write() settles
SendSerialDataWrite(t) ==
  /\ UNCHANGED rsVars
  /\ At(t, "sendSerialData", "write")
  /\ UNCHANGED <<fsFields, open, loops>>
  /\ \/ /\ Top(t).loc \in open
        /\ Complete(t, "ok")
     \/ Complete(t, "E_write")

\* ---- sendCommand(): flashService.ts 296-304
SendCommand(t) ==
  /\ UNCHANGED rsVars
  /\ UNCHANGED <<fsFields, open, loops>>
  /\ IF transport # NULL
       THEN Start(t, Frame("sendCommand", "write", transport))
       ELSE /\ CanStart(t)
            /\ calls' = calls + 1
            /\ outcome' = [op |-> "sendCommand", r |-> "E_notAvailable"]
            /\ UNCHANGED tasks

\* line 300: transport.write() settles
SendCommandWrite(t) ==
  /\ UNCHANGED rsVars
  /\ At(t, "sendCommand", "write")
  /\ UNCHANGED <<fsFields, open, loops>>
  /\ \/ /\ Top(t).loc \in open
        /\ Complete(t, "ok")
     \/ Complete(t, "E_write")

\* ---- reset(): flashService.ts 306-315
Reset(t) ==
  /\ UNCHANGED rsVars
  /\ UNCHANGED <<fsFields, open, loops>>
  /\ IF transport # NULL
       THEN Start(t, Frame("reset", "setDTR", transport))
       ELSE /\ CanStart(t)
            /\ calls' = calls + 1
            /\ outcome' = [op |-> "reset", r |-> "E_notAvailable"]
            /\ UNCHANGED tasks

\* line 311: setDTR(false) settles
ResetSetDTR(t) ==
  /\ UNCHANGED rsVars
  /\ At(t, "reset", "setDTR")
  /\ UNCHANGED <<fsFields, open, loops>>
  /\ FlashPulse(t, "setRTS")

\* line 312: setRTS(true) settles
ResetSetRTS(t) ==
  /\ UNCHANGED rsVars
  /\ At(t, "reset", "setRTS")
  /\ UNCHANGED <<fsFields, open, loops>>
  /\ \/ /\ Top(t).loc \in open
        /\ Goto(t, "hold", NULL)
     \/ Complete(t, "E_signal")

\* lines 313-314: the 100 ms hold elapses
ResetHold(t) ==
  /\ UNCHANGED rsVars
  /\ At(t, "reset", "hold")
  /\ UNCHANGED <<fsFields, open, loops>>
  /\ IF transport = NULL
       THEN Complete(t, "E_typeError")
       ELSE Goto(t, "clearRTS", transport)

\* line 314: setRTS(false) settles
ResetClearRTS(t) ==
  /\ UNCHANGED rsVars
  /\ At(t, "reset", "clearRTS")
  /\ UNCHANGED <<fsFields, open, loops>>
  /\ \/ /\ Top(t).loc \in open
        /\ Complete(t, "ok")
     \/ Complete(t, "E_signal")

NextFlash ==
  \/ \E t \in Tasks :
       \/ Connect(t)
       \/ ConnectRequestPort(t)
       \/ ConnectMain(t)
       \/ ConnectCleanedUp(t)
       \/ Disconnect(t)
       \/ DisconnectWriterClose(t)
       \/ DisconnectTransport(t)
       \/ DisconnectPortClose(t)
       \/ FlashFirmware(t)
       \/ FlashFetch(t)
       \/ FlashArrayBuffer(t)
       \/ FlashWrite(t)
       \/ FlashAfter(t)
       \/ FlashSetDTR(t)
       \/ FlashSetRTS(t)
       \/ FlashHold(t)
       \/ FlashClearRTS(t)
       \/ EraseFlash(t)
       \/ EraseFlashDone(t)
       \/ FlashAndTest(t)
       \/ FlashAndTestFlashed(t)
       \/ FlashAndTestDisconnected(t)
       \/ FlashAndTestWait(t)
       \/ FlashAndTestConnected(t)
       \/ StopSerialReading(t)
       \/ StopSerialReadingDone(t)
       \/ SendSerialData(t)
       \/ SendSerialDataWrite(t)
       \/ SendCommand(t)
       \/ SendCommandWrite(t)
       \/ Reset(t)
       \/ ResetSetDTR(t)
       \/ ResetSetRTS(t)
       \/ ResetHold(t)
       \/ ResetClearRTS(t)
  \/ \E p \in Ports : LoopRead(p)
  \/ \E p \in Ports : LoopExit(p)

Spec == Init /\ [][NextFlash]_vars

\* ============================================ FlashReadService, ConsoleTestService
\* The two classes differ in connectConsole only (variant).

\* setTerminal(): flashReadService.ts 19-21
SetTerminal ==
  /\ ~terminal
  /\ terminal' = TRUE
  /\ UNCHANGED <<device, consoleTransport, isConsoleClosed, variant,
                 fsVars, open, tasks, outcome, calls>>

\* a call that settles before its first await
Immediate(t, op, res) ==
  /\ CanStart(t)
  /\ calls' = calls + 1
  /\ outcome' = [op |-> op, r |-> res]
  /\ UNCHANGED tasks

\* ---- connectConsole(): flashReadService.ts 37-62, consoleTestService.ts 23-46
ConnectConsole(t) ==
  /\ UNCHANGED <<fsVars, open, variant, device, isConsoleClosed, terminal>>
  /\ IF device = NULL
       THEN /\ UNCHANGED consoleTransport
            /\ Start(t, Frame("connectConsole", "requestPort", NULL))
       ELSE IF variant = "flashRead"
         THEN /\ consoleTransport' =
                   IF consoleTransport = NULL THEN device ELSE consoleTransport
              /\ Start(t, Frame("connectConsole", "transportConnect", consoleTransport'))
         ELSE /\ UNCHANGED consoleTransport
              /\ IF consoleTransport # NULL
                   THEN Start(t, Frame("connectConsole", "transportConnect",
                                       consoleTransport))
                   ELSE Immediate(t, "connectConsole", "false")

\* requestPort() settles
ConnectConsoleRequestPort(t) ==
  /\ At(t, "connectConsole", "requestPort")
  /\ UNCHANGED <<fsVars, open, variant, isConsoleClosed, terminal>>
  /\ \/ \E p \in Ports :
          /\ device' = p
          /\ consoleTransport' =
               IF variant = "flashRead" /\ consoleTransport # NULL
                 THEN consoleTransport ELSE p
          /\ Goto(t, "transportConnect", consoleTransport')
     \/ /\ UNCHANGED <<device, consoleTransport>>
        /\ Complete(t, "E_noPort")

\* transport.connect() settles
ConnectConsoleTransportConnect(t) ==
  /\ At(t, "connectConsole", "transportConnect")
  /\ UNCHANGED <<fsVars, variant, device, consoleTransport, terminal>>
  /\ \/ /\ Top(t).loc \notin open
        /\ open' = open \cup {Top(t).loc}
        /\ isConsoleClosed' = FALSE
        /\ Complete(t, "true")
     \/ /\ UNCHANGED <<open, isConsoleClosed>>
        /\ Complete(t, "E_connect")

\* ---- startConsoleRead(): flashReadService.ts 63-94
StartConsoleRead(t) ==
  /\ UNCHANGED <<fsVars, open, variant, device, consoleTransport, terminal>>
  /\ IF consoleTransport = NULL \/ ~terminal
       THEN /\ UNCHANGED isConsoleClosed
            /\ Immediate(t, "startConsoleRead", "E_notAvailable")
       ELSE /\ isConsoleClosed' = FALSE
            /\ Start(t, Frame("startConsoleRead", "read", consoleTransport))

\* lines 72-74: the test of the loop and the next rawRead().next()
ConsoleLoopTest(t) ==
  IF isConsoleClosed THEN Complete(t, "ok")
  ELSE IF consoleTransport = NULL THEN Complete(t, "E_typeError")
  ELSE Goto(t, "read", consoleTransport)

\* lines 74-88: rawRead().next() settles; a chunk is written to the terminal
\* as it is
ConsoleRead(t) ==
  /\ At(t, "startConsoleRead", "read")
  /\ UNCHANGED <<fsFields, loops, prVars, trVars, open, variant, uiVars, rdVars, rsFields>>
  /\ \/ /\ Top(t).loc \in open
        /\ \E k \in ChunkKinds : lastRead' = [chunk |-> k, sunk |-> 1]
        /\ ConsoleLoopTest(t)
     \/ /\ Top(t).loc \notin open
        /\ UNCHANGED lastRead
        /\ Complete(t, "ok")
     \/ /\ UNCHANGED lastRead
        /\ Complete(t, "E_read")

\* ---- cleanUp(): flashReadService.ts 116-119
CleanUp ==
  /\ device' = NULL
  /\ consoleTransport' = NULL

\* ---- stopConsole(): flashReadService.ts 96-106
StopConsole(t) ==
  /\ UNCHANGED <<fsVars, open, variant, terminal>>
  /\ isConsoleClosed' = TRUE
  /\ IF consoleTransport # NULL
       THEN /\ UNCHANGED <<device, consoleTransport>>
            /\ Start(t, Frame("stopConsole", "transportDisconnect", consoleTransport))
       ELSE /\ CleanUp
            /\ Immediate(t, "stopConsole", "ok")

\* lines 99-100: transport.disconnect() settles
StopConsoleDisconnected(t) ==
  /\ At(t, "stopConsole", "transportDisconnect")
  /\ UNCHANGED <<fsVars, variant, rsFields>>
  /\ \/ /\ Top(t).loc \in open
        /\ open' = open \ {Top(t).loc}
        /\ IF consoleTransport = NULL
             THEN Complete(t, "E_typeError")
             ELSE Goto(t, "waitForUnlock", consoleTransport)
     \/ /\ UNCHANGED open
        /\ Complete(t, "E_disconnect")

\* lines 100-105: waitForUnlock(1500) settles, by the unlock or by the timeout
StopConsoleUnlocked(t) ==
  /\ At(t, "stopConsole", "waitForUnlock")
  /\ UNCHANGED <<fsVars, open, variant, isConsoleClosed, terminal>>
  /\ CleanUp
  /\ Complete(t, "ok")

\* ---- sendData(), sendRawData(): flashReadService.ts 124-175,
\* consoleTestService.ts 113-137 (sendData only)
SendOps(v) == IF v = "flashRead" THEN {"sendData", "sendRawData"} ELSE {"sendData"}

\* device.writable is locked by the writer of a send under way
WritableLocked ==
  \E u \in Tasks : ~Idle(u) /\ Top(u).op \in SendOps(variant) /\ Top(u).loc = device

\* device.writable exists only while the port is open
SendData(t) ==
  /\ UNCHANGED <<fsVars, open, variant, rsFields>>
  /\ \E op \in SendOps(variant) :
       IF consoleTransport = NULL
         THEN Immediate(t, op, "E_notAvailable")
         ELSE IF device # NULL /\ device \in open
           THEN IF WritableLocked
                  THEN Immediate(t, op, "E_typeError")
                  ELSE Start(t, Frame(op, "write", device))
           ELSE Immediate(t, op, "ok")

\* writer.write() settles and the lock is released
SendDataWrite(t) ==
  /\ ~Idle(t)
  /\ Top(t).op \in SendOps(variant)
  /\ Top(t).pc = "write"
  /\ UNCHANGED <<fsVars, open, variant, rsFields>>
  /\ \/ /\ Top(t).loc \in open
        /\ Complete(t, "ok")
     \/ Complete(t, "E_write")

\* ---- reset(): flashReadService.ts 108-114, consoleTestService.ts 97-103
ConsoleReset(t) ==
  /\ UNCHANGED <<fsVars, open, variant, rsFields>>
  /\ IF consoleTransport # NULL
       THEN Start(t, Frame("consoleReset", "setDTR", consoleTransport))
       ELSE Immediate(t, "consoleReset", "ok")

\* setDTR(false) settles; the 100 ms wait follows
ConsoleResetSetDTR(t) ==
  /\ At(t, "consoleReset", "setDTR")
  /\ UNCHANGED <<fsVars, open, variant, rsFields>>
  /\ \/ /\ Top(t).loc \in open
        /\ Goto(t, "hold", NULL)
     \/ Complete(t, "E_signal")

\* the 100 ms wait elapses; setDTR(true) is called on this.transport
ConsoleResetHold(t) ==
  /\ At(t, "consoleReset", "hold")
  /\ UNCHANGED <<fsVars, open, variant, rsFields>>
  /\ IF consoleTransport = NULL
       THEN Complete(t, "E_typeError")
       ELSE Goto(t, "raiseDTR", consoleTransport)

\* a reset that would end by setting the cancellation flag, as stopConsole
\* does
ConsoleResetRaiseDTR_Closing(t) ==
  /\ At(t, "consoleReset", "raiseDTR")
  /\ UNCHANGED <<fsVars, open, variant, device, consoleTransport, terminal>>
  /\ isConsoleClosed' = TRUE
  /\ \/ /\ Top(t).loc \in open
        /\ Complete(t, "ok")
     \/ Complete(t, "E_signal")

\* setDTR(true) settles
ConsoleResetRaiseDTR(t) ==
  /\ At(t, "consoleReset", "raiseDTR")
  /\ UNCHANGED <<fsVars, open, variant, rsFields>>
  /\ \/ /\ Top(t).loc \in open
        /\ Complete(t, "ok")
     \/ Complete(t, "E_signal")

NextConsole ==
  \/ SetTerminal
  \/ \E t \in Tasks :
       \/ ConnectConsole(t)
       \/ ConnectConsoleRequestPort(t)
       \/ ConnectConsoleTransportConnect(t)
       \/ StartConsoleRead(t)
       \/ ConsoleRead(t)
       \/ StopConsole(t)
       \/ StopConsoleDisconnected(t)
       \/ StopConsoleUnlocked(t)
       \/ SendData(t)
       \/ SendDataWrite(t)
       \/ ConsoleReset(t)
       \/ ConsoleResetSetDTR(t)
       \/ ConsoleResetHold(t)
       \/ ConsoleResetRaiseDTR(t)

SpecConsole == InitConsole /\ [][NextConsole]_vars

\* ========================================================= SimpleTerminal
\* src/src/components/SimpleTerminal.tsx (SimpleTerminal/SimpleTerminal.tsx is
\* the same code).  A string is a sequence of characters.  An action is a
\* method of the handle together with the render and the effect that React
\* runs for the state it set (lines 239-243).

ESC == "ESC"

\* the characters written in the model: the ones the parser tells apart, a
\* digit and a letter
Chars == {ESC, "[", "m", ";", "1", "A"}

\* the strings of 1 to n characters
Strings(n) == UNION {[1..k -> Chars] : k \in 1..n}

\* a style: 0 is a property that is not set, a colour is the code that set it
EmptyStyle ==
  [color |-> 0, backgroundColor |-> 0, fontWeight |-> 0, fontStyle |-> 0,
   textDecoration |-> 0]

\* processAnsiCode: lines 69-102
processAnsiCode(currentStyle, code) ==
  IF code = 0 THEN EmptyStyle
  ELSE IF code >= 30 /\ code <= 37 THEN [currentStyle EXCEPT !.color = code]
  ELSE IF code >= 90 /\ code <= 97 THEN [currentStyle EXCEPT !.color = code]
  ELSE IF code >= 40 /\ code <= 47 THEN [currentStyle EXCEPT !.backgroundColor = code]
  ELSE IF code = 1 THEN [currentStyle EXCEPT !.fontWeight = 1]
  ELSE IF code = 3 THEN [currentStyle EXCEPT !.fontStyle = 1]
  ELSE IF code = 4 THEN [currentStyle EXCEPT !.textDecoration = 1]
  ELSE currentStyle

DigitValue ==
  [c \in {"0", "1", "2", "3", "4", "5", "6", "7", "8", "9"} |->
     CASE c = "0" -> 0 [] c = "1" -> 1 [] c = "2" -> 2 [] c = "3" -> 3
       [] c = "4" -> 4 [] c = "5" -> 5 [] c = "6" -> 6 [] c = "7" -> 7
       [] c = "8" -> 8 [] c = "9" -> 9]

\* the value of the digits that start c from position i on, after acc
RECURSIVE LeadingDigits(_, _, _)
LeadingDigits(c, i, acc) ==
  IF i > Len(c) \/ c[i] \notin DOMAIN DigitValue
    THEN acc
    ELSE LeadingDigits(c, i + 1, 10 * acc + DigitValue[c[i]])

\* parseInt(c, 10) || 0 (line 144): the digits c starts with, 0 when it
\* starts with none
ParseCode(c) == LeadingDigits(c, 1, 0)

\* escapeBuffer.split(";") from position i on, cur being the piece under way
RECURSIVE SplitFrom(_, _, _)
SplitFrom(buf, i, cur) ==
  IF i > Len(buf) THEN <<cur>>
  ELSE IF buf[i] = ";" THEN <<cur>> \o SplitFrom(buf, i + 1, <<>>)
  ELSE SplitFrom(buf, i + 1, Append(cur, buf[i]))

\* lines 144-149: the codes of the sequence are applied in order
RECURSIVE ApplyCodes(_, _, _)
ApplyCodes(style, pieces, i) ==
  IF i > Len(pieces) THEN style
  ELSE ApplyCodes(processAnsiCode(style, ParseCode(pieces[i])), pieces, i + 1)

\* lines 110-114: the locals of parseAnsiText
ParserStart ==
  [result |-> <<>>, currentStyle |-> EmptyStyle, currentText |-> <<>>,
   inEscapeSequence |-> FALSE, escapeBuffer |-> <<>>]

\* a flush that would emit a run whether or not text has accumulated
Flush_Always(st) ==
  Append(st.result, [text |-> st.currentText, style |-> st.currentStyle])

\* lines 122-129 and 163-168: the accumulated text becomes a run
Flush(st) ==
  IF st.currentText # <<>>
    THEN Append(st.result, [text |-> st.currentText, style |-> st.currentStyle])
    ELSE st.result

\* lines 117-160: the loop of parseAnsiText from position i on
RECURSIVE ParseFrom(_, _, _)
ParseFrom(text, i, st) ==
  IF i > Len(text) THEN st
  ELSE IF text[i] = ESC /\ i + 1 <= Len(text) /\ text[i + 1] = "["
    THEN ParseFrom(text, i + 2,
                   [st EXCEPT !.result = Flush(st),
                              !.currentText = <<>>,
                              !.inEscapeSequence = TRUE,
                              !.escapeBuffer = <<>>])
  ELSE IF st.inEscapeSequence
    THEN IF text[i] = "m"
           THEN ParseFrom(text, i + 1,
                          [st EXCEPT !.inEscapeSequence = FALSE,
                                     !.currentStyle =
                                        ApplyCodes(@, SplitFrom(st.escapeBuffer, 1, <<>>), 1)])
           ELSE ParseFrom(text, i + 1,
                          [st EXCEPT !.escapeBuffer = Append(@, text[i])])
  ELSE ParseFrom(text, i + 1, [st EXCEPT !.currentText = Append(@, text[i])])

\* a parser that would leave out the text after the last escape sequence
parseAnsiText_NoLastRun(text) == ParseFrom(text, 1, ParserStart).result

\* parseAnsiText: lines 105-171
parseAnsiText(text) == Flush(ParseFrom(text, 1, ParserStart))

\* what the content held when clear() ran
Held(text) ==
  LET st == ParseFrom(text, 1, ParserStart) IN
    IF st.inEscapeSequence THEN "escape"
    ELSE IF st.currentStyle # EmptyStyle THEN "styled"
    ELSE "plain"

\* write(text) of a terminal that parses each text by itself and appends the
\* runs to those it shows
Write_PerCall ==
  /\ Len(content) < MaxLen
  /\ \E text \in Strings(MaxLen - Len(content)) :
       /\ content' = content \o text
       /\ parsedContent' = parsedContent \o parseAnsiText(text)
       /\ input' = input \o text
  /\ lastCut' = Len(content)
  /\ UNCHANGED <<cleared, fsFields, open, loops, tasks, outcome, calls, rsFields,
                 variant, uiVars, rdVars, prVars, lastRead>>

\* write(text) of a terminal that puts the new text before the old
Write_Prepending ==
  /\ Len(content) < MaxLen
  /\ \E text \in Strings(MaxLen - Len(content)) :
       /\ content' = text \o content
       /\ parsedContent' = parseAnsiText(content')
       /\ input' = input \o text
  /\ lastCut' = Len(content)
  /\ UNCHANGED <<cleared, fsFields, open, loops, tasks, outcome, calls, rsFields,
                 variant, uiVars, rdVars, prVars, lastRead>>

\* write(text): lines 259-261, then the effect of lines 239-243
Write ==
  /\ Len(content) < MaxLen
  /\ \E text \in Strings(MaxLen - Len(content)) :
       /\ content' = content \o text
       /\ parsedContent' = parseAnsiText(content')
       /\ input' = input \o text
  /\ lastCut' = Len(content)
  /\ UNCHANGED <<cleared, fsFields, open, loops, tasks, outcome, calls, rsFields,
                 variant, uiVars, rdVars, prVars, lastRead>>

\* clear() of a terminal that keeps an escape sequence left open
Clear_KeepingEscape ==
  /\ content' = IF Held(content) = "escape" THEN <<ESC, "[">> ELSE <<>>
  /\ parsedContent' = parseAnsiText(content')
  /\ input' = <<>>
  /\ lastCut' = 0
  /\ cleared' = Held(content)
  /\ UNCHANGED <<fsFields, open, loops, tasks, outcome, calls, rsFields, variant, uiVars, rdVars,
                 prVars, lastRead>>

\* clear(): lines 265-267, then the effect of lines 239-243
Clear ==
  /\ content' = <<>>
  /\ parsedContent' = parseAnsiText(content')
  /\ input' = <<>>
  /\ lastCut' = 0
  /\ cleared' = Held(content)
  /\ UNCHANGED <<fsFields, open, loops, tasks, outcome, calls, rsFields, variant, uiVars, rdVars,
                 prVars, lastRead>>

\* the characters of escape parameters in the model: digits that make the
\* codes of every row of the table, the separator and a letter
ParamChars == {"0", "1", "3", "4", "7", "9", ";", "A"}

\* the parameter strings of 0 to n characters
Params(n) == UNION {[1..k -> ParamChars] : k \in 0..n}

\* write(text) on an empty terminal, text being one escape sequence with
\* terminator m and the letter A after it: lines 259-261, then the effect of
\* lines 239-243
WriteSequence ==
  /\ content = <<>>
  /\ \E buf \in Params(MaxParam) :
       /\ content' = <<ESC, "[">> \o buf \o <<"m", "A">>
       /\ parsedContent' = parseAnsiText(content')
       /\ input' = content'
  /\ lastCut' = 0
  /\ UNCHANGED <<cleared, fsFields, open, loops, tasks, outcome, calls, rsFields,
                 variant, uiVars, rdVars, prVars, lastRead>>

NextStyle ==
  \/ WriteSequence
  \/ Clear

SpecStyle == Init /\ [][NextStyle]_vars

\* getContent(): line 268
getContent == content

NextTerminal ==
  \/ Write
  \/ Clear

SpecTerminal == Init /\ [][NextTerminal]_vars

\* ================================================================ claims

Frames(t) == {tasks[t][i] : i \in 1..Len(tasks[t])}

\* a flashFirmware call of task t is between its start and its return
Flashing(t) == \E f \in Frames(t) : f.op = "flashFirmware"

\* a read loop of FlashService runs on the open port p
Monitoring(p) == loops[p] > 0 /\ p \in open

\* a read loop of the console service runs on the open port p
ConsoleReading(p) ==
  /\ p \in open
  /\ \E t \in Tasks : At(t, "startConsoleRead", "read") /\ Top(t).loc = p

\* the top frame of t, a call of op, returns or throws in this step
Returns(t, op) ==
  /\ ~Idle(t)
  /\ Top(t).op = op
  /\ Len(tasks'[t]) = Len(tasks[t]) - 1

\* what it hands to its caller
Returned(t) ==
  IF Len(tasks[t]) = 1 THEN outcome'.r ELSE tasks'[t][Len(tasks'[t])].r

\* FlashService holds nothing: no port, no transport, no loader
Disconnected == port = NULL /\ transport = NULL /\ espLoader = NULL

\* FlashService holds the open port p with its transport and its loader
Connected(p) == port = p /\ transport = p /\ espLoader = p /\ p \in open

\* C1: a firmware flash and a read loop are never both active on the serial
\* resource the service holds.
C1_FlashReadExclusive ==
  \A p \in Ports : \A t \in Tasks :
    ~(Monitoring(p) /\ transport = p /\ Flashing(t))

\* this step requests a flash on task t
FlashRequested(t) == ~Flashing(t) /\ Flashing(t)'

\* this step hands the image of task t to the loader
LoaderInvoked(t) ==
  /\ ~Idle(t)
  /\ ~Idle(t)'
  /\ Top(t).op = "flashFirmware"
  /\ Top(t).pc # "writeFlash"
  /\ Top(t)'.op = "flashFirmware"
  /\ Top(t)'.pc = "writeFlash"

\* C2: while the session is Reading (a read loop runs on the held, open
\* transport) a flash request is rejected: no flash starts and the loader is
\* not invoked.
C2_FlashWhileReadingRejected ==
  [][\A t \in Tasks :
       (transport # NULL /\ Monitoring(transport))
         => (~FlashRequested(t) /\ ~LoaderInvoked(t))]_vars

\* C3: once disconnect has completed, whatever release step failed, the
\* service holds no port, no transport and no loader.
C3_DisconnectEndsDisconnected ==
  [][\A t \in Tasks :
       (Returns(t, "disconnect") /\ Len(tasks[t]) = 1) => Disconnected']_vars

\* C4: no disconnect operation (FlashService.disconnect, stopSerialReading,
\* stopConsole) raises to its caller.
C4_DisconnectNeverRaises ==
  outcome.op \in {"disconnect", "stopSerialReading", "stopConsole"}
    => ~Thrown(outcome.r)

\* C5: when connect fails after a port was selected, the service is back in
\* Disconnected: it retains no port, no transport and no loader.
C5_FailedConnectDisconnected ==
  [][\A t \in Tasks :
       (Returns(t, "connect") /\ Returned(t) = "failure") => Disconnected']_vars

\* C6: a held port that is still open is never replaced by another port.
C6_HeldPortNotReplaced ==
  [][(port \in open /\ port' # NULL) => port' = port]_vars

\* this step issues the port-selection prompt for task t
Prompted(t) ==
  /\ ~Idle(t)'
  /\ Top(t)'.pc = "requestPort"
  /\ (Idle(t) \/ Top(t).pc # "requestPort")

\* C7: a connect made while the session holds an open resource does not
\* prompt for a port again.
C7_NoPromptWhileHeld ==
  [][\A t \in Tasks : (port \in open /\ transport = port) => ~Prompted(t)]_vars

\* a disconnect of another task than t is in progress
DisconnectInProgress(t) ==
  \E u \in Tasks \ {t} : \E f \in Frames(u) : f.op = "disconnect"

\* this step of task t acquires a port and builds its transport
Acquires(t) ==
  /\ At(t, "connect", "requestPort")
  /\ ~Idle(t)'
  /\ Top(t)'.pc = "main"

\* C8: a connect acquires no port while a disconnect is in progress, and a
\* connect that reports success holds the port it acquired.
C8_ConnectWaitsForDisconnect ==
  [][\A t \in Tasks :
       /\ Acquires(t) => ~DisconnectInProgress(t)
       /\ (Returns(t, "connect") /\ Returned(t) = "success")
            => /\ port' = Top(t).loc
               /\ transport' = Top(t).loc
               /\ espLoader' = Top(t).loc
               /\ Top(t).loc \in open']_vars

\* this step belongs to a stopConsole call of task t
StopStep(t) ==
  \/ ~Idle(t) /\ tasks[t][1].op = "stopConsole" /\ tasks'[t] # tasks[t]
  \/ Idle(t) /\ outcome'.op = "stopConsole" /\ calls' # calls

\* C9: stopping the read loop from Reading keeps the resource: the device
\* and the transport stay held and the port stays open.
C9_StopReadKeepsResource ==
  [][\A t \in Tasks :
       (StopStep(t) /\ consoleTransport # NULL /\ ConsoleReading(consoleTransport))
         => /\ consoleTransport' = consoleTransport
            /\ device' = device
            /\ consoleTransport \in open']_vars

\* C10: when a flash fails, at whatever stage, the error is handed to the
\* caller and the failure releases nothing: port, transport, loader, writer
\* and the open ports are as before, so a session that was Connected still is.
C10_FailedFlashKeepsSession ==
  [][\A t \in Tasks :
       (Returns(t, "flashFirmware") /\ Returned(t) # "ok")
         => /\ Thrown(Returned(t))
            /\ UNCHANGED <<port, transport, espLoader, writer, open>>]_vars

\* a flash has failed at the loader, the session is still Connected and a
\* later flash has been accepted and has reached the loader
C10_Witness ==
  /\ outcome = [op |-> "flashFirmware", r |-> "E_write"]
  /\ \E p \in Ports : Connected(p)
  /\ \E t \in Tasks : At(t, "flashFirmware", "writeFlash")

\* the suspended frame of task t is resumed in this step
Resumed(t) == ~Idle(t) /\ tasks'[t] # tasks[t]

\* C11: a flash whose downloaded image has zero bytes ends at the step that
\* reads the image: it throws the empty-firmware error (or the error of the
\* read itself when arrayBuffer() rejects) and never reaches the loader, so no
\* writeFlash, no after and no reset pulse follow.
C11_EmptyImageRejected ==
  [][\A t \in Tasks :
       (At(t, "flashFirmware", "arrayBuffer") /\ Top(t).loc = 0 /\ Resumed(t))
         => /\ Returns(t, "flashFirmware")
            /\ Returned(t) \in {"E_empty", "E_download"}
            /\ ~LoaderInvoked(t)]_vars

\* an empty image was rejected while the service held a loader on an open port
C11_Witness ==
  /\ outcome = [op |-> "flashFirmware", r |-> "E_empty"]
  /\ \E p \in Ports : Connected(p)

\* FlashService with the calls a flashing session makes: connect, flash, disconnect
NextSession ==
  \E t \in Tasks :
    \/ Connect(t)
    \/ ConnectRequestPort(t)
    \/ ConnectMain(t)
    \/ ConnectCleanedUp(t)
    \/ Disconnect(t)
    \/ DisconnectTransport(t)
    \/ DisconnectPortClose(t)
    \/ FlashFirmware(t)
    \/ FlashFetch(t)
    \/ FlashArrayBuffer(t)
    \/ FlashWrite(t)
    \/ FlashAfter(t)
    \/ FlashSetDTR(t)
    \/ FlashSetRTS(t)
    \/ FlashHold(t)
    \/ FlashClearRTS(t)
    \/ EraseFlash(t)
    \/ EraseFlashDone(t)

SpecSession == Init /\ [][NextSession]_vars

\* no call is in flight: the pages disable their buttons while a handler runs
\* (isProcessing, FirmwareInstallPage.tsx 97-136 and 548)
NoCallInFlight == \A u \in Tasks : Idle(u)

\* ---- reportProgress: flashService.ts 190-194
\* Math.round(written / total * 100); Math.round rounds a half upwards
Percent(w, n) == (200 * w + n) \div (2 * n)

\* the loader reports w bytes written: the callback of lines 190-194
ReportProgress(t) ==
  /\ At(t, "flashFirmware", "writeFlash")
  /\ total > 0
  /\ \E w \in (written + 1)..total :
       /\ written' = w
       /\ progress' = Percent(w, total)
       /\ hundreds' = IF Percent(w, total) = 100 THEN hundreds + 1 ELSE hundreds
  /\ UNCHANGED <<fsFields, open, loops, tasks, outcome, calls, rsFields, variant, uiVars, rdVars,
                 total, trVars, lastRead>>

\* writeFlash has been called on a connected port with an image that takes
\* some number of bytes to write; no progress is reported yet
InitProgress ==
  /\ PageAt(0, "WebFlasher")
  /\ NothingReceived
  /\ \E p \in Ports :
       /\ port = p
       /\ transport = p
       /\ espLoader = p
       /\ open = {p}
       /\ tasks = [t \in Tasks |->
                    IF t = 1 THEN <<Frame("flashFirmware", "writeFlash", p)>> ELSE <<>>]
  /\ writer = NULL
  /\ loops = [p \in Ports |-> 0]
  /\ outcome = NoOutcome
  /\ calls = 1
  /\ device = NULL
  /\ consoleTransport = NULL
  /\ isConsoleClosed = FALSE
  /\ terminal = FALSE
  /\ variant = "flashRead"
  /\ EmptyTerminal
  /\ lastRead = NoRead
  /\ total \in 1..MaxTotal
  /\ written = 0
  /\ progress = 0
  /\ hundreds = 0

\* the reports of one writeFlash, then its settlement and the rest of the flash
NextProgress ==
  \E t \in Tasks :
    \/ ReportProgress(t)
    \/ written = total /\ FlashWrite(t)

SpecProgress == InitProgress /\ [][NextProgress]_vars

\* the loader reports progress in this step
Reported == written' # written

\* C12: the percentages passed to onProgress during a writeFlash never
\* decrease, and the value 100 is passed exactly once, with the last report.
C12_ProgressMonotoneOnce ==
  [][Reported => /\ progress' >= progress
                 /\ hundreds' <= 1
                 /\ (written' = total => hundreds' = 1)]_vars

\* the text of the runs, one after the other
RECURSIVE RunText(_)
RunText(runs) ==
  IF runs = <<>> THEN <<>> ELSE Head(runs).text \o RunText(Tail(runs))

\* C13: whatever the chunks in which a string was written to an empty
\* terminal, the runs shown are those of the string written in one call.
C13_ChunksParseAsWhole ==
  parsedContent = parseAnsiText(input)

\* the string ESC [ 1 m A was written in two calls, cut between ESC and "[",
\* and shows the single bold run A
C13_Witness ==
  /\ input = <<ESC, "[", "1", "m", "A">>
  /\ lastCut = 1
  /\ parsedContent = <<[text |-> <<"A">>, style |-> [EmptyStyle EXCEPT !.fontWeight = 1]]>>

\* C14: getContent() returns the text of the runs, with no escape sequence.
C14_GetContentIsRunText ==
  getContent = RunText(parsedContent)

\* C16: a chunk with bytes in it that a read loop was handed was passed to
\* the loop's sink, once, white space or not.
C16_EveryChunkSunk ==
  lastRead.chunk \in {"blank", "text"} => lastRead.sunk = 1

\* the methods that send data to the device
Sends == {"sendData", "sendRawData", "sendSerialData", "sendCommand"}

\* the pending write of the send of task t settles in this step
SendWriteSettles(t) ==
  /\ ~Idle(t)
  /\ Idle(t)'
  /\ Top(t).op \in Sends
  /\ Top(t).pc = "write"

\* a send returns or throws in this step
SendSettles ==
  \/ \E t \in Tasks : SendWriteSettles(t)
  \/ calls' # calls /\ tasks' = tasks /\ outcome'.op \in Sends

\* C17: a send that does not fail has written its bytes to an open port; a
\* send made while the port is closed throws and writes nothing.
C17_SendNeedsOpenPort ==
  [][(SendSettles /\ ~Thrown(outcome'.r))
       => \E t \in Tasks : SendWriteSettles(t) /\ Top(t).loc \in open]_vars

\* a read loop of either service has not exited and reads port p
LoopOn(p) ==
  \/ loops[p] > 0
  \/ \E t \in Tasks : At(t, "startConsoleRead", "read") /\ Top(t).loc = p

\* C18: a disconnect releases in order: the port is closed only once the read
\* loop on it has exited, and the service drops its port (the session is
\* Disconnected) only once the port is closed.
C18_DisconnectOrder ==
  [][/\ \A p \in Ports : (p \in open /\ p \notin open') => ~LoopOn(p)
     /\ (device # NULL /\ device' = NULL) => device \notin open'
     /\ (port # NULL /\ port' = NULL) => port \notin open']_vars

\* the await at which the flashFirmware call of task t is suspended
FlashPc(t) ==
  IF ~Idle(t) /\ Top(t).op = "flashFirmware" THEN Top(t).pc ELSE "none"

\* C19: in a flash, after() is called only when writeFlash has completed and
\* the reset pulse is begun only when after() has completed; a flash whose
\* writeFlash or after() fails ends there, with no pulse; a flash that
\* succeeds has ended its pulse.
C19_WriteFinalizePulse ==
  [][\A t \in Tasks :
       /\ (FlashPc(t)' = "after" /\ FlashPc(t) # "after")
            => FlashPc(t) = "writeFlash"
       /\ (FlashPc(t)' = "setDTR" /\ FlashPc(t) # "setDTR")
            => FlashPc(t) = "after"
       /\ (FlashPc(t) \in {"writeFlash", "after"} /\ Returns(t, "flashFirmware"))
            => /\ Returned(t) \in {"E_write", "E_after", "E_typeError"}
               /\ FlashPc(t)' = "none"
       /\ (Returns(t, "flashFirmware") /\ Returned(t) = "ok")
            => FlashPc(t) = "clearRTS"]_vars

\* the pulse: what is awaited after each of its calls.  setDTR is
\* setDTR(false), setRTS is setRTS(true), hold is the 100 ms timer, clearRTS
\* is setRTS(false)
PulseNext == [setDTR |-> "setRTS", setRTS |-> "hold", hold |-> "clearRTS"]

\* the call of the pulse that task t awaits has settled and task t goes on in
\* the same method
PulseGoesOn(t) ==
  /\ ~Idle(t)
  /\ Top(t).pc \in DOMAIN PulseNext
  /\ Len(tasks'[t]) = Len(tasks[t])
  /\ tasks'[t] # tasks[t]

\* C20: every reset and the reboot after a flash drive the same pulse: after
\* setDTR(false) comes setRTS(true), then the hold, then setRTS(false).
C20_SamePulse ==
  [][\A t \in Tasks :
       PulseGoesOn(t) => Top(t)'.pc = PulseNext[Top(t).pc]]_vars

\* the number of characters of text before its first escape introducer
RECURSIVE PlainPrefix(_)
PlainPrefix(text) ==
  IF text = <<>> THEN 0
  ELSE IF Len(text) >= 2 /\ text[1] = ESC /\ text[2] = "[" THEN 0
  ELSE 1 + PlainPrefix(Tail(text))

\* C15: clear() leaves getContent() empty and no run, whatever was written
\* before; the text written next, up to its first escape sequence, is shown
\* whole as the first run, with the empty style.
C15_ClearResets ==
  [][/\ input' = <<>> => (getContent' = <<>> /\ parsedContent' = <<>>)
     /\ (cleared # "never" /\ input = <<>> /\ input' # <<>> /\ PlainPrefix(input') > 0)
          => /\ parsedContent' # <<>>
             /\ parsedContent'[1] = [text |-> SubSeq(input', 1, PlainPrefix(input')),
                                     style |-> EmptyStyle]]_vars

\* clear() ran on a content that ended inside an escape sequence; the text
\* m A written next, which would have closed that sequence, is shown whole
\* with the empty style
C15_Witness ==
  /\ cleared = "escape"
  /\ input = <<"m", "A">>
  /\ lastCut = 0
  /\ parsedContent = <<[text |-> <<"m", "A">>, style |-> EmptyStyle]>>

\* FlashService as the installation page drives it: connect, flash and
\* disconnect, one call at a time
NextInstall ==
  \E t \in Tasks :
    \/ NoCallInFlight /\ Connect(t)
    \/ NoCallInFlight /\ FlashFirmware(t)
    \/ NoCallInFlight /\ Disconnect(t)
    \/ ConnectRequestPort(t)
    \/ ConnectMain(t)
    \/ ConnectCleanedUp(t)
    \/ DisconnectTransport(t)
    \/ DisconnectPortClose(t)
    \/ FlashFetch(t)
    \/ FlashArrayBuffer(t)
    \/ FlashWrite(t)
    \/ FlashAfter(t)
    \/ FlashSetDTR(t)
    \/ FlashSetRTS(t)
    \/ FlashHold(t)
    \/ FlashClearRTS(t)

SpecInstall == Init /\ [][NextInstall]_vars

\* the reset methods of the services
Resets == {"reset", "consoleReset"}

\* the last control-line call of the reset of task t settles in this step
ResetPulseEnds(t) ==
  /\ ~Idle(t)
  /\ Idle(t)'
  /\ Top(t).op \in Resets
  /\ Top(t).pc \in {"clearRTS", "raiseDTR"}

\* a reset returns or throws in this step
ResetSettles ==
  \/ \E t \in Tasks : ~Idle(t) /\ Idle(t)' /\ Top(t).op \in Resets
  \/ calls' # calls /\ tasks' = tasks /\ outcome'.op \in Resets

\* C21: a reset that reports success has pulsed the control lines of an open
\* port; a reset requested with no transport (Disconnected) throws.
C21_ResetNeedsTransport ==
  [][(ResetSettles /\ ~Thrown(outcome'.r))
       => \E t \in Tasks : ResetPulseEnds(t) /\ Top(t).loc \in open]_vars

\* this step is taken by a reset call: the call is made, or one of its awaits
\* settles
ResetStep ==
  \/ \E t \in Tasks : ~Idle(t) /\ Top(t).op \in Resets /\ tasks'[t] # tasks[t]
  \/ \E t \in Tasks : Idle(t) /\ ~Idle(t)' /\ Top(t)'.op \in Resets
  \/ calls' # calls /\ tasks' = tasks /\ outcome'.op \in Resets

\* the read loop of the console service is suspended in a read in task t
ReadingIn(t) == At(t, "startConsoleRead", "read")

\* C22: no step of a reset changes the session: the port, the transport, the
\* loader and the cancellation flag are what they were, no port is opened or
\* closed, and a read loop that was running is still running.
C22_ResetKeepsSession ==
  [][ResetStep
       => /\ UNCHANGED <<port, transport, espLoader, writer>>
          /\ UNCHANGED <<device, consoleTransport, isConsoleClosed>>
          /\ UNCHANGED <<open, loops>>
          /\ \A u \in Tasks : ReadingIn(u) => ReadingIn(u)']_vars

\* a reset made while the read loop runs has succeeded: the loop still reads
\* the connected device and the flag is not set
C22_Witness ==
  /\ outcome = [op |-> "consoleReset", r |-> "ok"]
  /\ device # NULL
  /\ consoleTransport = device
  /\ device \in open
  /\ ~isConsoleClosed
  /\ \E u \in Tasks : ReadingIn(u) /\ Top(u).loc = device

\* C23: the text after an escape sequence ESC [ params m carries the style
\* got by applying the parameters, split on ";", left to right to the empty
\* style: a parameter that is not a number counts as 0; 0 clears, 1, 3 and 4
\* set bold, italic and underline, 30-37 and 90-97 set the colour, 40-47 the
\* background, any other code changes nothing.
C23_ParametersApplied ==
  LET Digits == {"0", "1", "2", "3", "4", "5", "6", "7", "8", "9"}
      Value(piece) ==
        IF piece # <<>> /\ \A k \in 1..Len(piece) : piece[k] \in Digits
          THEN LeadingDigits(piece, 1, 0)
          ELSE 0
      Applied(s, c) ==
        CASE c = 0 -> EmptyStyle
          [] c = 1 -> [s EXCEPT !.fontWeight = 1]
          [] c = 3 -> [s EXCEPT !.fontStyle = 1]
          [] c = 4 -> [s EXCEPT !.textDecoration = 1]
          [] c \in 30..37 -> [s EXCEPT !.color = 30 + (c - 30)]
          [] c \in 90..97 -> [s EXCEPT !.color = 90 + (c - 90)]
          [] c \in 40..47 -> [s EXCEPT !.backgroundColor = 40 + (c - 40)]
          [] OTHER -> s
      RECURSIVE Fold(_, _, _)
      Fold(s, pieces, i) ==
        IF i > Len(pieces) THEN s
        ELSE Fold(Applied(s, Value(pieces[i])), pieces, i + 1)
  IN  (Len(input) >= 4 /\ input[1] = ESC)
        => parsedContent =
             <<[text |-> <<"A">>,
                style |-> Fold(EmptyStyle,
                               SplitFrom(SubSeq(input, 3, Len(input) - 2), 1, <<>>),
                               1)]>>

\* task t is inside a call of the loader: writeFlash or after of a flash, or
\* eraseFlash of an erase
InLoader(t) ==
  \/ At(t, "flashFirmware", "writeFlash")
  \/ At(t, "flashFirmware", "after")
  \/ At(t, "eraseFlash", "erase")

\* C24: while a flash or an erase is inside the loader, no further flash or
\* erase reaches the loader of the same port: the later request is rejected.
C24_OneLoaderOperation ==
  \A t \in Tasks : \A u \in Tasks \ {t} :
    ~(InLoader(t) /\ InLoader(u) /\ Top(t).loc = Top(u).loc)

\* the console service after a connectConsole() that succeeded: it holds a
\* device and its transport, the port is open and the flag is not set
InitReading ==
  /\ PageAt(1, "SerialRead")
  /\ NothingReceived
  /\ NoProgress
  /\ EmptyTerminal
  /\ lastRead = NoRead
  /\ port = NULL
  /\ transport = NULL
  /\ espLoader = NULL
  /\ writer = NULL
  /\ loops = [p \in Ports |-> 0]
  /\ tasks = [t \in Tasks |-> <<>>]
  /\ outcome = NoOutcome
  /\ calls = 0
  /\ \E p \in Ports :
       /\ device = p
       /\ consoleTransport = p
       /\ open = {p}
  /\ isConsoleClosed = FALSE
  /\ terminal = FALSE
  /\ variant \in Variants

\* the console service from there on; a read that is in flight returns
SpecReading ==
  /\ InitReading
  /\ [][NextConsole]_vars
  /\ \A t \in Tasks : WF_vars(ConsoleRead(t))

\* C25: once stop has set the flag while a read loop is in a read, the loop
\* ends when reads return: it does not go on reading for ever.
C25_StoppedLoopEnds ==
  \A t \in Tasks : (isConsoleClosed /\ ReadingIn(t)) ~> ~ReadingIn(t)

\* the characters of s occur in w, in the order they have in s
RECURSIVE IsSubseq(_, _)
IsSubseq(s, w) ==
  IF s = <<>> THEN TRUE
  ELSE IF w = <<>> THEN FALSE
  ELSE IF Head(s) = Head(w) THEN IsSubseq(Tail(s), Tail(w))
  ELSE IsSubseq(s, Tail(w))

FlashDrives == {"writeFlash", "after", "setDTR", "setRTS", "clearRTS"}

\* this step of the flash of task t makes a call on the loader or on the
\* control lines
Drives(t) ==
  /\ FlashPc(t)' \in FlashDrives
  /\ FlashPc(t)' # FlashPc(t)

\* a disconnect called by the user has released the transport of port p and
\* has not returned yet: transport.disconnect() has closed the port and the
\* field is null (lines 340-343), the call waits for port.close() (line 347)
\* and this.espLoader is still the loader of that transport
ReleasedByDisconnect(p) ==
  /\ p \notin open
  /\ transport = NULL
  /\ espLoader = p
  /\ \E u \in Tasks : Len(tasks[u]) = 1 /\ At(u, "disconnect", "portClose")

\* C27: a flash in flight while a disconnect releases the transport makes no
\* further call on the loader or the control lines of that transport.
C27_FlashLeavesReleasedTransport ==
  [][\A t \in Tasks :
       Drives(t) => ~ReleasedByDisconnect(Top(t)'.loc)]_vars

\* this step of task t calls fetch() for the firmware image
Downloads(t) ==
  /\ FlashPc(t)' = "fetch"
  /\ FlashPc(t) # "fetch"

\* C28: a flash requested while the service holds no port, no transport and
\* no loader is rejected at once: no download is started and the fields of
\* the session are left as they were.
C28_FlashWhileDisconnectedRejected ==
  [][\A t \in Tasks :
       (Disconnected /\ FlashRequested(t))
         => /\ ~Downloads(t)
            /\ UNCHANGED <<port, transport, espLoader, writer, open>>]_vars

\* ======================================================= the pages' handlers

\* what a handler step that sets the progress leaves alone
pageVars == <<fsFields, open, loops, rsFields, variant, trVars, lastRead, total,
              uiVars, rdVars>>

\* a handler calls a service method and awaits it: the handler's frame waits
\* at pc under the frame of the method
Handle(t, handler, pc, callee) ==
  /\ CanStart(t)
  /\ tasks' = [tasks EXCEPT ![t] = <<Frame(handler, pc, NULL), callee>>]
  /\ calls' = calls + 1
  /\ UNCHANGED outcome

\* ---- handleFlash: WebFlasher.tsx 144-192
\* lines 153-181: setProgress(0), then flashFirmware() is called with a
\* callback that sets the progress; the loader will count from 0
HandleFlash(t) ==
  /\ progress' = 0
  /\ written' = 0
  /\ hundreds' = 0
  /\ UNCHANGED pageVars
  /\ Handle(t, "handleFlash", "flashFirmware", Frame("flashFirmware", "fetch", NULL))

\* lines 183-191: flashFirmware() has settled; the catch block sets the
\* status message and the finally block clears isFlashing
HandleFlashSettled(t) ==
  /\ Back(t, "handleFlash", "flashFirmware")
  /\ UNCHANGED <<pageVars, written, progress, hundreds>>
  /\ Complete(t, IF Thrown(Top(t).r) THEN "failed" ELSE "ok")

\* ---- handleFlash of the component of part_000: lines 84-115
\* lines 87-92: the file is read
HandleFlashUnnamed(t) ==
  /\ written' = 0
  /\ hundreds' = 0
  /\ UNCHANGED <<pageVars, progress>>
  /\ Start(t, Frame("handleFlashUnnamed", "file", NULL))

\* lines 92-98: the file is read and flashFirmware() is called; a file that
\* cannot be read ends in the catch and the finally blocks
HandleFlashUnnamedFile(t) ==
  /\ At(t, "handleFlashUnnamed", "file")
  /\ UNCHANGED <<pageVars, written, hundreds>>
  /\ \/ /\ UNCHANGED <<progress, outcome, calls>>
        /\ tasks' = [tasks EXCEPT ![t] =
                       <<Frame("handleFlashUnnamed", "flashFirmware", NULL),
                         Frame("flashFirmware", "fetch", NULL)>>]
     \/ /\ progress' = 0
        /\ Complete(t, "failed")

\* lines 100-114: flashFirmware() has settled; the finally block clears
\* isFlashing and sets the progress to 0
HandleFlashUnnamedSettled(t) ==
  /\ Back(t, "handleFlashUnnamed", "flashFirmware")
  /\ UNCHANGED <<pageVars, written, hundreds>>
  /\ progress' = 0
  /\ Complete(t, IF Thrown(Top(t).r) THEN "failed" ELSE "ok")

\* the service is connected to a port and an image takes some number of
\* blocks to write
InitPage ==
  /\ PageAt(0, "WebFlasher")
  /\ NothingReceived
  /\ EmptyTerminal
  /\ lastRead = NoRead
  /\ \E p \in Ports :
       /\ port = p
       /\ transport = p
       /\ espLoader = p
       /\ open = {p}
  /\ writer = NULL
  /\ loops = [p \in Ports |-> 0]
  /\ tasks = [t \in Tasks |-> <<>>]
  /\ outcome = NoOutcome
  /\ calls = 0
  /\ device = NULL
  /\ consoleTransport = NULL
  /\ isConsoleClosed = FALSE
  /\ terminal = FALSE
  /\ variant = "flashRead"
  /\ total \in 1..MaxWrites
  /\ written = 0
  /\ progress = 0
  /\ hundreds = 0

\* the flash handlers of the two components over a connected FlashService
NextFlashPage ==
  \E t \in Tasks :
    \/ HandleFlash(t)
    \/ HandleFlashSettled(t)
    \/ HandleFlashUnnamed(t)
    \/ HandleFlashUnnamedFile(t)
    \/ HandleFlashUnnamedSettled(t)
    \/ FlashFetch(t)
    \/ FlashArrayBuffer(t)
    \/ ReportProgress(t)
    \/ FlashWrite(t)
    \/ FlashAfter(t)
    \/ FlashSetDTR(t)
    \/ FlashSetRTS(t)
    \/ FlashHold(t)
    \/ FlashClearRTS(t)

SpecFlashPage == InitPage /\ [][NextFlashPage]_vars

\* the handlers that flash
FlashHandlers == {"handleFlash", "handleFlashUnnamed"}

\* the flash handler of task t ends in this step, its flash having failed
FlashHandlerFails(t) ==
  /\ ~Idle(t)
  /\ Len(tasks[t]) = 1
  /\ Top(t).op \in FlashHandlers
  /\ Top(t).pc = "flashFirmware"
  /\ Thrown(Top(t).r)
  /\ Idle(t)'

HandleErase(t) ==
  /\ progress' = 0
  /\ UNCHANGED <<pageVars, written, hundreds>>
  /\ IF espLoader # NULL
       THEN Handle(t, "handleErase", "eraseFlash", Frame("eraseFlash", "erase", espLoader))
       ELSE /\ CanStart(t)
            /\ tasks' = [tasks EXCEPT ![t] =
                           <<[Frame("handleErase", "eraseFlash", NULL)
                                EXCEPT !.r = "E_notConnected"]>>]
            /\ calls' = calls + 1
            /\ UNCHANGED outcome

\* a handleErase that would set the progress to 100 in its finally block
HandleEraseSettled_Always(t) ==
  /\ Back(t, "handleErase", "eraseFlash")
  /\ UNCHANGED <<pageVars, written, hundreds>>
  /\ progress' = 100
  /\ Complete(t, IF Thrown(Top(t).r) THEN "failed" ELSE "ok")

\* lines 132-141: eraseFlash() has settled; setProgress(100) follows a
\* success, the catch block sets the status message only
HandleEraseSettled(t) ==
  /\ Back(t, "handleErase", "eraseFlash")
  /\ UNCHANGED <<pageVars, written, hundreds>>
  /\ progress' = IF Thrown(Top(t).r) THEN progress ELSE 100
  /\ Complete(t, IF Thrown(Top(t).r) THEN "failed" ELSE "ok")

\* the erase handler over a FlashService that is connected and may be
\* disconnected
NextErasePage ==
  \E t \in Tasks :
    \/ HandleErase(t)
    \/ EraseFlashDone(t)
    \/ HandleEraseSettled(t)
    \/ Disconnect(t)
    \/ DisconnectTransport(t)
    \/ DisconnectPortClose(t)

SpecErasePage == InitPage /\ [][NextErasePage]_vars

\* this step calls the loader's eraseFlash() for task t
EraseDelegated(t) ==
  /\ Idle(t)
  /\ ~Idle(t)'
  /\ Top(t)'.op = "eraseFlash"

\* the erase handler of task t ends in this step
EraseHandlerEnds(t) ==
  /\ Back(t, "handleErase", "eraseFlash")
  /\ Idle(t)'

\* C30: the erase handler has set the progress to 0 when it calls the
\* loader's erase; the progress becomes 100 only in the step in which a
\* handler finds its erase completed; a handler whose erase failed sets no
\* progress and leaves port, transport, loader and open ports as they are, so
\* a session that was Connected still is.
C30_EraseProgress ==
  [][/\ \A t \in Tasks : EraseDelegated(t) => progress' = 0
     /\ (progress' = 100 /\ progress # 100)
          => \E t \in Tasks : EraseHandlerEnds(t) /\ Top(t).r = "ok"
     /\ \A t \in Tasks :
          (EraseHandlerEnds(t) /\ Top(t).r = "ok") => progress' = 100
     /\ \A t \in Tasks :
          (EraseHandlerEnds(t) /\ Top(t).r # "ok")
            => /\ UNCHANGED progress
               /\ UNCHANGED <<port, transport, espLoader, writer, open>>
               /\ \A p \in Ports : Connected(p) => Connected(p)']_vars

\* the loader's erase has failed on a connected session: the handler has
\* ended, the progress is 0 and the session is Connected
C30_Witness ==
  /\ outcome = [op |-> "handleErase", r |-> "failed"]
  /\ progress = 0
  /\ \A t \in Tasks : Idle(t)
  /\ \E p \in Ports : Connected(p)

\* the characters of text that lie outside its escape segments, from
\* position i on: a segment starts at an ESC followed by "[" and runs through
\* the next m, or to the end of text when no m follows
RECURSIVE OutsideEscapes(_, _, _)
OutsideEscapes(text, i, inside) ==
  IF i > Len(text) THEN <<>>
  ELSE IF inside
    THEN OutsideEscapes(text, i + 1, text[i] # "m")
  ELSE IF text[i] = ESC /\ i < Len(text) /\ text[i + 1] = "["
    THEN OutsideEscapes(text, i + 2, TRUE)
  ELSE <<text[i]>> \o OutsideEscapes(text, i + 1, FALSE)

\* C35: the text of the runs, one run after the other, is the text written
\* with its escape segments taken out: no other character is dropped,
\* doubled or moved.
C35_RunsAreTextWithoutEscapes ==
  RunText(parsedContent) = OutsideEscapes(input, 1, FALSE)

\* A and then a sequence that is never closed, 1 A, were written: the runs
\* read A, and everything from the introducer on is left out
C35_Witness ==
  /\ input = <<"A", ESC, "[", "1", "A">>
  /\ RunText(parsedContent) = <<"A">>

\* C37: no run of the parsed document has an empty text.
C37_NoEmptyRun ==
  \A i \in 1..Len(parsedContent) : parsedContent[i].text # <<>>

\* text, then two escape introducers with nothing between them: the first
\* emitted the run A and the second emitted none
C37_Witness ==
  /\ input = <<"A", ESC, "[", ESC, "[">>
  /\ Len(parsedContent) = 1
  /\ parsedContent[1].text = <<"A">>

\* ================================================= WebFlasherPage and its tabs

\* what no handler of the page or of its components changes
uiKeep == <<loops, variant, prVars, trVars, lastRead, rdVars>>

\* a handler whose service call has settled at once with res
Handled(t, handler, pc, res) ==
  /\ CanStart(t)
  /\ tasks' = [tasks EXCEPT ![t] = <<[Frame(handler, pc, NULL) EXCEPT !.r = res]>>]
  /\ calls' = calls + 1
  /\ UNCHANGED outcome

\* the port chooser of navigator.serial.requestPort() is a modal dialog of the
\* browser: while it is shown no control of the page can be clicked
ChooserClosed ==
  \A u \in Tasks : ~(Len(tasks[u]) > 0 /\ Top(u).pc = "requestPort")

\* a click is a task of the event loop: it runs when no continuation of a
\* settled promise is waiting, and only while the chooser is closed
UserEvent ==
  /\ ChooserClosed
  /\ \A u \in Tasks : ~(Len(tasks[u]) > 0 /\ Top(u).r # "none")

\* both setters of a component: setIsConnected and setHasStabilizedConnection
SetConnected(c, b) ==
  /\ isConnected' = [isConnected EXCEPT ![c] = b]
  /\ hasStabilizedConnection' = b

\* ---- handleTabChange: WebFlasherPage.tsx 19-26
HandleTabChange ==
  /\ UserEvent
  /\ ~hasStabilizedConnection
  /\ \E newValue \in {0, 1} :
       /\ newValue # tabValue
       /\ tabValue' = newValue
  /\ UNCHANGED <<fsFields, open, rsFields, tasks, outcome, calls, uiKeep,
                 hasStabilizedConnection, isConnected, isReading>>

\* ---- WebFlasher.handleConnect: WebFlasher.tsx 84-105
\* the Connect button is enabled while isConnected is false (234-236)
HandleConnect(t) ==
  /\ UserEvent
  /\ tabValue = 0
  /\ ~isConnected["WebFlasher"]
  /\ UNCHANGED <<fsFields, open, rsFields, uiKeep, uiVars>>
  /\ Handle(t, "handleConnect", "connect", Frame("connect", "requestPort", NULL))

\* lines 94-99: connect() has settled; the flags are set when it succeeded
HandleConnectSettled(t) ==
  /\ Back(t, "handleConnect", "connect")
  /\ UNCHANGED <<fsFields, open, rsFields, uiKeep, tabValue, isReading>>
  /\ IF Top(t).r = "success"
       THEN SetConnected("WebFlasher", TRUE)
       ELSE UNCHANGED <<isConnected, hasStabilizedConnection>>
  /\ Complete(t, "ok")

\* ---- WebFlasher.handleDisconnect: WebFlasher.tsx 107-124
\* the Disconnect button is enabled while isConnected is true (240-244)
HandleDisconnect(t) ==
  /\ UserEvent
  /\ tabValue = 0
  /\ isConnected["WebFlasher"]
  /\ UNCHANGED <<open, rsFields, uiKeep, uiVars>>
  /\ IF NothingHeld
       THEN /\ espLoader' = NULL
            /\ UNCHANGED <<port, transport, writer>>
            /\ Handled(t, "handleDisconnect", "disconnect", "true")
       ELSE /\ UNCHANGED fsFields
            /\ Handle(t, "handleDisconnect", "disconnect", DisconnectEntry)

\* lines 110-112: disconnect() has settled, with true or with false; the
\* flags are cleared
HandleDisconnectSettled(t) ==
  /\ Back(t, "handleDisconnect", "disconnect")
  /\ UNCHANGED <<fsFields, open, rsFields, uiKeep, tabValue, isReading>>
  /\ SetConnected("WebFlasher", FALSE)
  /\ Complete(t, "ok")

\* ---- SerialRead.handleConnect: WebFlasher.tsx 414-443
\* it calls connectConsole() of flashReadService (flashReadService.ts 37-50)
SerialHandleConnect(t) ==
  /\ UserEvent
  /\ tabValue = 1
  /\ ~isConnected["SerialRead"]
  /\ UNCHANGED <<fsFields, open, device, isConsoleClosed, terminal, uiKeep, uiVars>>
  /\ IF device = NULL
       THEN /\ UNCHANGED consoleTransport
            /\ Handle(t, "serialHandleConnect", "connectConsole",
                      Frame("connectConsole", "requestPort", NULL))
       ELSE /\ consoleTransport' =
                 IF consoleTransport = NULL THEN device ELSE consoleTransport
            /\ Handle(t, "serialHandleConnect", "connectConsole",
                      Frame("connectConsole", "transportConnect", consoleTransport'))

\* lines 425-442: connectConsole() has settled; the flags are set when it
\* returned true
SerialHandleConnectSettled(t) ==
  /\ Back(t, "serialHandleConnect", "connectConsole")
  /\ UNCHANGED <<fsFields, open, rsFields, uiKeep, tabValue, isReading>>
  /\ IF Top(t).r = "true"
       THEN SetConnected("SerialRead", TRUE)
       ELSE UNCHANGED <<isConnected, hasStabilizedConnection>>
  /\ Complete(t, "ok")

\* stopConsole() called by a handler: flashReadService.ts 96-106
CallStopConsole(t, handler) ==
  /\ isConsoleClosed' = TRUE
  /\ UNCHANGED <<fsFields, open, terminal, uiKeep, uiVars>>
  /\ IF consoleTransport # NULL
       THEN /\ UNCHANGED <<device, consoleTransport>>
            /\ Handle(t, handler, "stopConsole",
                      Frame("stopConsole", "transportDisconnect", consoleTransport))
       ELSE /\ CleanUp
            /\ Handled(t, handler, "stopConsole", "ok")

\* ---- SerialRead.handleDisconnect: WebFlasher.tsx 444-464
SerialHandleDisconnect(t) ==
  /\ UserEvent
  /\ tabValue = 1
  /\ isConnected["SerialRead"]
  /\ CallStopConsole(t, "serialHandleDisconnect")

\* lines 448-452: stopConsole() has settled; the flags are cleared unless it
\* threw
SerialHandleDisconnectSettled(t) ==
  /\ Back(t, "serialHandleDisconnect", "stopConsole")
  /\ UNCHANGED <<fsFields, open, rsFields, uiKeep, tabValue>>
  /\ IF Thrown(Top(t).r)
       THEN UNCHANGED <<isConnected, hasStabilizedConnection, isReading>>
       ELSE /\ SetConnected("SerialRead", FALSE)
            /\ isReading' = FALSE
  /\ Complete(t, "ok")

\* ---- SerialRead.handleStartReading: WebFlasher.tsx 465-487
\* setIsReading(true), then startConsoleRead() is called in a task of its own
SerialHandleStartReading(t) ==
  /\ UserEvent
  /\ tabValue = 1
  /\ isConnected["SerialRead"]
  /\ ~isReading
  /\ isReading' = TRUE
  /\ UNCHANGED <<fsFields, open, device, consoleTransport, terminal, uiKeep,
                 tabValue, hasStabilizedConnection, isConnected>>
  /\ IF consoleTransport = NULL \/ ~terminal
       THEN /\ UNCHANGED isConsoleClosed
            /\ Handled(t, "serialHandleStartReading", "startConsoleRead",
                       "E_notAvailable")
       ELSE /\ isConsoleClosed' = FALSE
            /\ Handle(t, "serialHandleStartReading", "startConsoleRead",
                      Frame("startConsoleRead", "read", consoleTransport))

\* lines 476-481: startConsoleRead() has settled; its error clears isReading
SerialHandleStartReadingSettled(t) ==
  /\ Back(t, "serialHandleStartReading", "startConsoleRead")
  /\ UNCHANGED <<fsFields, open, rsFields, uiKeep, tabValue,
                 hasStabilizedConnection, isConnected>>
  /\ isReading' = IF Thrown(Top(t).r) THEN FALSE ELSE isReading
  /\ Complete(t, "ok")

\* ---- SerialRead.handleStopReading: WebFlasher.tsx 488-497
SerialHandleStopReading(t) ==
  /\ UserEvent
  /\ tabValue = 1
  /\ isReading
  /\ CallStopConsole(t, "serialHandleStopReading")

\* lines 491-493: stopConsole() has settled; isReading is cleared unless it
\* threw
SerialHandleStopReadingSettled(t) ==
  /\ Back(t, "serialHandleStopReading", "stopConsole")
  /\ UNCHANGED <<fsFields, open, rsFields, uiKeep, tabValue,
                 hasStabilizedConnection, isConnected>>
  /\ isReading' = IF Thrown(Top(t).r) THEN isReading ELSE FALSE
  /\ Complete(t, "ok")

\* the page with its two tabs over the two services
NextTabs ==
  \/ HandleTabChange
  \/ SetTerminal
  \/ \E t \in Tasks :
       \/ HandleConnect(t)
       \/ HandleConnectSettled(t)
       \/ HandleDisconnect(t)
       \/ HandleDisconnectSettled(t)
       \/ ConnectRequestPort(t)
       \/ ConnectMain(t)
       \/ ConnectCleanedUp(t)
       \/ DisconnectTransport(t)
       \/ DisconnectPortClose(t)
       \/ SerialHandleConnect(t)
       \/ SerialHandleConnectSettled(t)
       \/ SerialHandleDisconnect(t)
       \/ SerialHandleDisconnectSettled(t)
       \/ SerialHandleStartReading(t)
       \/ SerialHandleStartReadingSettled(t)
       \/ SerialHandleStopReading(t)
       \/ SerialHandleStopReadingSettled(t)
       \/ ConnectConsoleRequestPort(t)
       \/ ConnectConsoleTransportConnect(t)
       \/ ConsoleRead(t)
       \/ StopConsoleDisconnected(t)
       \/ StopConsoleUnlocked(t)

SpecTabs == Init /\ [][NextTabs]_vars

\* flashService holds a connection: a transport on an open port
FlasherConnected == transport # NULL /\ transport \in open

\* flashReadService holds a connection: a transport on an open port
MonitorConnected == consoleTransport # NULL /\ consoleTransport \in open

\* C31: flashService and flashReadService never hold a connection at the
\* same time (two connections are two open ports).
C31_OneServiceConnected ==
  ~(FlasherConnected /\ MonitorConnected /\ transport # consoleTransport)

\* no call of a service or of a handler is in flight
NoOperationInFlight == \A t \in Tasks : Len(tasks[t]) = 0

\* C36: whenever no operation is in flight, the isConnected flag of each
\* component equals the connectedness of its service: WebFlasher's flag says
\* whether flashService holds a transport, SerialRead's flag whether
\* flashReadService holds one.
C36_FlagEqualsConnectedness ==
  NoOperationInFlight =>
    /\ isConnected["WebFlasher"] = (transport # NULL)
    /\ isConnected["SerialRead"] = (consoleTransport # NULL)

\* C32: at most one read loop runs per service instance: no two calls of
\* startConsoleRead are reading the same transport at the same time.
C32_OneReadLoop ==
  \A t, u \in Tasks :
    (t # u /\ ReadingIn(t) /\ ReadingIn(u)) => Top(t).loc # Top(u).loc

\* stopConsole() is the call that returned last
StopReturned == outcome = [op |-> "stopConsole", r |-> "ok"]

\* this step is the read of loop t yielding a chunk, which the loop writes to
\* the terminal (flashReadService.ts 74-80)
ChunkWritten(t) ==
  /\ ReadingIn(t)
  /\ Top(t).loc \in open
  /\ lastRead'.sunk = 1
  /\ lastRead' # lastRead \/ tasks'[t] # tasks[t]
  /\ ~(Idle(t)' /\ outcome'.r = "E_read")

\* C33: after stopConsole has returned, and until another call returns, no
\* read loop writes a chunk to the terminal.
C33_NoChunkAfterStop ==
  [][StopReturned => \A t \in Tasks : ~ChunkWritten(t)]_vars

\* ================================================ decoding the chunks read
\* WebFlasher.tsx 386-396: terminalAdapter.write makes a new TextDecoder for
\* every chunk and calls decode(data) on it, without { stream: true }.

\* the bytes told apart: an ASCII byte, the lead byte of a two-byte and of a
\* three-byte character, and a continuation byte
Bytes == {"41", "C3", "E2", "A9"}

\* how many continuation bytes a lead byte asks for
Needed(b) == IF b = "C3" THEN 1 ELSE IF b = "E2" THEN 2 ELSE 0

\* the character a complete sequence decodes to, named by its lead byte
CharOf(lead) == IF lead = "C3" THEN "U+00E9" ELSE "U+2A69"

\* the replacement character
FFFD == "U+FFFD"

\* the byte strings of 1 to n bytes
RECURSIVE ByteStrings(_)
ByteStrings(n) ==
  IF n = 0 THEN {}
  ELSE {<<b>> : b \in Bytes}
         \cup {Append(s, b) : s \in ByteStrings(n - 1), b \in Bytes}

\* TextDecoder("utf-8").decode(bytes) from byte i on, need continuation
\* bytes being awaited for the character that lead began: an ill-formed or
\* truncated sequence gives one U+FFFD, and the byte that broke it is decoded
\* again
RECURSIVE DecodeFrom(_, _, _, _)
DecodeFrom(bytes, i, need, lead) ==
  IF i > Len(bytes) THEN (IF need > 0 THEN <<FFFD>> ELSE <<>>)
  ELSE IF need = 0
    THEN IF bytes[i] = "41" THEN <<"A">> \o DecodeFrom(bytes, i + 1, 0, "41")
         ELSE IF bytes[i] = "A9" THEN <<FFFD>> \o DecodeFrom(bytes, i + 1, 0, "41")
         ELSE DecodeFrom(bytes, i + 1, Needed(bytes[i]), bytes[i])
  ELSE IF bytes[i] = "A9"
    THEN IF need = 1 THEN <<CharOf(lead)>> \o DecodeFrom(bytes, i + 1, 0, "41")
         ELSE DecodeFrom(bytes, i + 1, need - 1, lead)
  ELSE <<FFFD>> \o DecodeFrom(bytes, i, 0, "41")

\* new TextDecoder().decode(data)
Decode(bytes) == DecodeFrom(bytes, 1, 0, "41")

\* ---- terminalAdapter.write(data) with a Uint8Array: lines 387-393
AdapterWrite ==
  /\ \E data \in ByteStrings(MaxChunk) :
       /\ Len(received) + Len(data) <= MaxBytes
       /\ received' = received \o data
       /\ appended' = appended \o Decode(data)
  /\ UNCHANGED <<fsFields, open, rsFields, tasks, outcome, calls, loops, variant,
                 prVars, trVars, lastRead, uiVars>>

NextDecode == AdapterWrite

SpecDecode == Init /\ [][NextDecode]_vars

\* C34: the text appended to the terminal, each chunk decoded on its own, is
\* the decoding of all the bytes received.
C34_ChunksDecodeAsWhole == appended = Decode(received)

====
